---- MODULE Spec2Model ----
(***************************************************************************)
(* Pricing calculator form (Vue single-file component).                    *)
(*                                                                         *)
(* State: the two fetched datasets (tariffs, exchangeRates), the loading   *)
(* flag, the user's FormSelection (formValues) and the position of the     *)
(* one-shot loader.  Operations: the loader's two completions, the three   *)
(* selection handlers, and the watcher on formValues.tariffId, which runs  *)
(* as part of the tariff handler's event (Vue flushes it before the next   *)
(* render, and no other event can run in between).                         *)
(*                                                                         *)
(* JavaScript values are tagged records so that null, undefined, NaN, the  *)
(* number 0 and non-zero numbers stay distinct and truthiness can be       *)
(* computed as the language computes it.  Money is fixed point: prices     *)
(* and rates are integers in units of 1/Scale.                             *)
(***************************************************************************)
EXTENDS Integers, Sequences, FiniteSets, TLC

VARIABLES tariffs, exchangeRates, isLoading, formValues, fetchState, lastOp,
          watchFired, fetched, submission

vars == <<tariffs, exchangeRates, isLoading, formValues, fetchState, lastOp,
          watchFired, fetched, submission>>

(* ------------------------------ bounds -------------------------------- *)

\* Ids the selection fields may emit are 0..MaxId (ids above the catalog's
\* largest id are ids that are not in the catalog).
MaxId == 2

(* -------------------------- JavaScript values ------------------------- *)

Null == [null |-> TRUE]
Undefined == [undefined |-> TRUE]
NaN == [nan |-> TRUE]
Num(n) == [num |-> n]
Str(s) == [str |-> s]

IsNum(v) == DOMAIN v = {"num"}
IsStr(v) == DOMAIN v = {"str"}

\* ToBoolean: null, undefined, NaN, 0 and "" are falsy, the rest truthy.
Falsy(v) == v \in {Null, Undefined, NaN, Num(0), Str("")}
Truthy(v) == ~Falsy(v)

\* a && b: the left operand when it is falsy, the right one otherwise.
And(a, b) == IF Falsy(a) THEN a ELSE b

\* a * b on numbers: undefined or NaN on either side gives NaN.
Times(a, b) == IF IsNum(a) /\ IsNum(b) THEN Num(a.num * b.num) ELSE NaN

(* ----------------------------- fixed point ---------------------------- *)

\* toFixed(2): two fraction digits.
FractionDigits == 2
Scale == 10 ^ FractionDigits

\* +(x).toFixed(2) of a product of two fixed-point numbers (units 1/Scale^2):
\* the nearest multiple of 1/Scale, the larger one on a tie; NaN stays NaN.
ToFixed2(v) == IF IsNum(v) THEN Num((v.num + Scale \div 2) \div Scale) ELSE NaN

(* --------------------- collaborators (not in src/) -------------------- *)

\* enum Currency: member name (the ticker) |-> member value.
Currency == [RUB |-> "ruble", USD |-> "dollar", EUR |-> "euro"]
Tickers == DOMAIN Currency

\* tickerFromCurrency: the member name of a Currency value, undefined when the
\* value is no member of the enum.
tickerFromCurrency(c) ==
    IF \E k \in Tickers : Currency[k] = c
    THEN Str(CHOOSE k \in Tickers : Currency[k] = c)
    ELSE Undefined

\* getDiscountForOption: the discount of the option with that id (here a tenth
\* of a yearly option's price), undefined when no option has the id.
getDiscountForOption(paymentOptions, paymentOptionId) ==
    LET hits == {i \in 1..Len(paymentOptions) : Num(paymentOptions[i].id) = paymentOptionId}
    IN IF hits = {} THEN Undefined
       ELSE LET o == paymentOptions[CHOOSE i \in hits : \A j \in hits : i <= j]
            IN IF o.paymentPeriod = "YEAR" THEN Num(o.basePrice \div 10) ELSE Num(0)

(* ---------------------------- fetched data ---------------------------- *)

Option(id, price, period) == [id |-> id, basePrice |-> price, paymentPeriod |-> period]
Tariff(id, name, cur, opts) ==
    [id |-> id, name |-> name, baseCurrency |-> cur, paymentOptions |-> opts]

\* The scenario of the specification: USD, 9.99 a month.
TBasic == Tariff(1, "Basic", "dollar", <<Option(1, 999, "MONTH"), Option(2, 9990, "YEAR")>>)
TPro == Tariff(2, "Pro", "ruble", <<Option(2, 150, "MONTH"), Option(1, 1500, "YEAR")>>)
\* Ids are numbers: 0 is one of them.
TZero == Tariff(0, "Zero", "euro", <<Option(0, 500, "MONTH"), Option(1, 5000, "YEAR")>>)
TZeroFirst == Tariff(2, "ZeroFirst", "dollar", <<Option(0, 700, "MONTH"), Option(2, 7000, "YEAR")>>)
\* A tariff with an empty payment-option sequence.
TEmpty == Tariff(2, "Empty", "euro", <<>>)
\* A base currency that is no member of the enum.
TNoTicker == Tariff(2, "NoTicker", "peso", <<Option(1, 300, "MONTH")>>)

FetchedTariffs ==
    { <<TBasic, TPro>>, <<TZero, TBasic>>, <<TBasic, TZeroFirst>>,
      <<TBasic, TEmpty>>, <<TBasic, TNoTicker>>, <<>> }

Rates(base, conv) == [base_code |-> base, conversion_rates |-> conv]

\* conversion_rates maps a ticker to a rate in units of 1/Scale; a ticker may
\* be missing from the map, and a base currency from the table.
FetchedRates ==
    { << Rates("USD", [USD |-> 100, EUR |-> 90, RUB |-> 9033]),
         Rates("EUR", [USD |-> 111, EUR |-> 100, RUB |-> 9950]),
         Rates("RUB", [USD |-> 1, EUR |-> 1, RUB |-> 100]) >>,
      << Rates("USD", [USD |-> 100, EUR |-> 90]),
         Rates("EUR", [EUR |-> 100, RUB |-> 9950]) >>,
      <<>> }

(* -------------------------------- state ------------------------------- *)

NoOp == [op |-> "mount", arg |-> Null, threw |-> FALSE]
Op(name, arg, threw) == [op |-> name, arg |-> arg, threw |-> threw]

Init ==
    /\ tariffs = <<>>
    /\ exchangeRates = <<>>
    /\ isLoading = TRUE
    /\ formValues = [tariffId |-> Null, currency |-> Null, paymentOptionId |-> Null]
    /\ fetchState = "pending"
    /\ lastOp = NoOp
    /\ watchFired = FALSE
    /\ fetched = Null
    /\ submission = Null

(* --------------------------- derivation graph ------------------------- *)

\* Array.prototype.find: the first element of seq that passes the test, or
\* undefined; hits is the set of indices of the elements that pass.
Find(seq, hits) ==
    IF hits = {} THEN Undefined ELSE seq[CHOOSE i \in hits : \A j \in hits : i <= j]

\* Mutant of selectedTariffOf: falls back to the first tariff of the catalog
\* when no tariff has the selected id.
selectedTariffOf_FirstWhenMissing(ts, fv) ==
    LET hits == {i \in 1..Len(ts) : Num(ts[i].id) = fv.tariffId}
    IN IF hits # {} THEN ts[CHOOSE i \in hits : \A j \in hits : i <= j]
       ELSE IF ts # <<>> THEN ts[1] ELSE Null

selectedTariffOf(ts, fv) ==
    LET found == Find(ts, {i \in 1..Len(ts) : Num(ts[i].id) = fv.tariffId})
    IN IF found = Undefined THEN Null ELSE found

selectedTariff == selectedTariffOf(tariffs, formValues)

\* currencyProps: the selected tariff's base currency, RUB when none is selected.
currencyProps ==
    IF selectedTariff = Null THEN Currency.RUB ELSE selectedTariff.baseCurrency

\* periodFieldProps: {id, paymentPeriod} of each option of the selected tariff.
periodFieldProps ==
    IF selectedTariff = Null THEN <<>>
    ELSE [i \in 1..Len(selectedTariff.paymentOptions) |->
            [id |-> selectedTariff.paymentOptions[i].id,
             paymentPeriod |-> selectedTariff.paymentOptions[i].paymentPeriod]]

\* rates.conversion_rates[currency]: undefined when the map lacks the key.
RateFor(rates, currency) ==
    IF currency.str \in DOMAIN rates.conversion_rates
    THEN Num(rates.conversion_rates[currency.str])
    ELSE Undefined

\* Mutant of exchangeRateOf: a base currency without an entry in the rate
\* table is converted at par instead of yielding 0.
exchangeRateOf_ParWhenNoEntry(ts, xr, fv) ==
    LET hits == {i \in 1..Len(ts) : Num(ts[i].id) = fv.tariffId}
    IN IF hits = {} \/ Falsy(fv.currency) \/ Falsy(fv.paymentOptionId) THEN Num(0)
       ELSE LET st == ts[CHOOSE i \in hits : \A j \in hits : i <= j]
                baseCurrency == tickerFromCurrency(st.baseCurrency)
                entries == {i \in 1..Len(xr) : Str(xr[i].base_code) = baseCurrency}
            IN IF entries = {} THEN Num(Scale)
               ELSE RateFor(xr[CHOOSE i \in entries : \A j \in entries : i <= j], fv.currency)

exchangeRateOf(ts, xr, fv) ==
    LET st == selectedTariffOf(ts, fv) IN
    IF Falsy(st) \/ Falsy(fv.currency) \/ Falsy(fv.paymentOptionId) THEN Num(0)
    ELSE LET baseCurrency == tickerFromCurrency(st.baseCurrency)
             rates == Find(xr, {i \in 1..Len(xr) : Str(xr[i].base_code) = baseCurrency})
         IN IF Falsy(baseCurrency) \/ Falsy(rates) THEN Num(0)
            ELSE RateFor(rates, fv.currency)

exchangeRate == exchangeRateOf(tariffs, exchangeRates, formValues)

totalAmountOf(ts, xr, fv) ==
    LET st == selectedTariffOf(ts, fv) IN
    IF Falsy(st) \/ Falsy(fv.paymentOptionId) THEN Num(0)
    ELSE LET selectedOption ==
                 Find(st.paymentOptions,
                      {i \in 1..Len(st.paymentOptions) :
                          Num(st.paymentOptions[i].id) = fv.paymentOptionId})
         IN IF Falsy(selectedOption) THEN Num(0)
            ELSE ToFixed2(Times(Num(selectedOption.basePrice), exchangeRateOf(ts, xr, fv)))

totalAmount == totalAmountOf(tariffs, exchangeRates, formValues)

discountOf(ts, fv) ==
    LET st == selectedTariffOf(ts, fv) IN
    IF Falsy(st) \/ Falsy(fv.paymentOptionId) \/ Falsy(fv.currency) \/ Falsy(fv.tariffId)
    THEN Num(0)
    ELSE LET disc == getDiscountForOption(st.paymentOptions, fv.paymentOptionId)
         IN IF Falsy(disc) THEN Num(0) ELSE disc

discount == discountOf(tariffs, formValues)

\* The discount handed to the total display: discount * exchangeRate.
displayedDiscount == Times(discount, exchangeRate)

amountCurrency ==
    IF Falsy(formValues.currency) THEN Str("") ELSE Str(formValues.currency.str)

\* canSubmit is the value of tariffId && currency && paymentOptionId; the
\* submit button is enabled when that value is truthy.
canSubmitValue(fv) == And(And(fv.tariffId, fv.currency), fv.paymentOptionId)

canSubmit == Truthy(canSubmitValue(formValues))

(* ------------------------------ reset rule ---------------------------- *)

\* Mutant of watchTariffId: an id that matches no tariff resets currency and
\* paymentOptionId to null instead of returning early.
watchTariffId_ResetsWhenMissing(ts, fv, newTariffId) ==
    LET hits == {i \in 1..Len(ts) : Num(ts[i].id) = newTariffId}
    IN IF hits = {}
       THEN [fv |-> [fv EXCEPT !.currency = Null, !.paymentOptionId = Null],
             threw |-> FALSE]
       ELSE LET found == ts[CHOOSE i \in hits : \A j \in hits : i <= j]
            IN IF Len(found.paymentOptions) = 0 THEN [fv |-> fv, threw |-> TRUE]
               ELSE [fv |-> [fv EXCEPT
                               !.currency =
                                   IF Falsy(tickerFromCurrency(found.baseCurrency))
                                   THEN Null
                                   ELSE tickerFromCurrency(found.baseCurrency),
                               !.paymentOptionId =
                                   IF Falsy(Num(found.paymentOptions[1].id))
                                   THEN Null
                                   ELSE Num(found.paymentOptions[1].id)],
                     threw |-> FALSE]

\* The watcher on formValues.tariffId, run with the new id on the selection
\* fv that already holds it.  Reading .id of the missing first element of an
\* empty paymentOptions array throws a TypeError before either assignment.
watchTariffId(ts, fv, newTariffId) ==
    LET found == Find(ts, {i \in 1..Len(ts) : Num(ts[i].id) = newTariffId})
    IN IF Falsy(found) THEN [fv |-> fv, threw |-> FALSE]
       ELSE IF Len(found.paymentOptions) = 0 THEN [fv |-> fv, threw |-> TRUE]
       ELSE LET selectedCurrency == tickerFromCurrency(found.baseCurrency)
                firstPeriodId == Num(found.paymentOptions[1].id)
            IN [fv |-> [fv EXCEPT
                          !.currency = IF Falsy(selectedCurrency) THEN Null
                                       ELSE selectedCurrency,
                          !.paymentOptionId = IF Falsy(firstPeriodId) THEN Null
                                              ELSE firstPeriodId],
                threw |-> FALSE]

(* ------------------------------- handlers ----------------------------- *)

\* Mutant of tariffSelected: the watcher runs on every call, also when the
\* id assigned is the id tariffId already holds.
tariffSelected_AlwaysWatches(ts, fv, newTariffId) ==
    LET w == watchTariffId(ts, [fv EXCEPT !.tariffId = newTariffId], newTariffId)
    IN [fv |-> w.fv, threw |-> w.threw, fired |-> TRUE]

\* tariffSelectionHandler followed by the watcher, which runs only when the
\* assignment changed tariffId.
tariffSelected(ts, fv, newTariffId) ==
    LET assigned == [fv EXCEPT !.tariffId = newTariffId]
    IN IF newTariffId = fv.tariffId
       THEN [fv |-> assigned, threw |-> FALSE, fired |-> FALSE]
       ELSE LET w == watchTariffId(ts, assigned, newTariffId)
            IN [fv |-> w.fv, threw |-> w.threw, fired |-> TRUE]

\* Mutant of currencySelected: choosing a currency also clears the period.
currencySelected_ClearsPeriod(fv, newCurrency) ==
    [fv EXCEPT !.currency = newCurrency, !.paymentOptionId = Null]

currencySelected(fv, newCurrency) == [fv EXCEPT !.currency = newCurrency]

periodSelected(fv, newPeriodId) == [fv EXCEPT !.paymentOptionId = newPeriodId]

\* Mutant of TariffSelectionHandler: the form is there while the data loads.
TariffSelectionHandler_WhileLoading(id) ==
    /\ LET r == tariffSelected(tariffs, formValues, Num(id))
       IN /\ formValues' = r.fv
          /\ lastOp' = Op("tariffSelected", Num(id), r.threw)
          /\ watchFired' = r.fired
    /\ UNCHANGED <<tariffs, exchangeRates, isLoading, fetchState, fetched, submission>>

\* The form (and so every handler) exists only once isLoading is false.
TariffSelectionHandler(id) ==
    /\ ~isLoading
    /\ LET r == tariffSelected(tariffs, formValues, Num(id))
       IN /\ formValues' = r.fv
          /\ lastOp' = Op("tariffSelected", Num(id), r.threw)
          /\ watchFired' = r.fired
    /\ UNCHANGED <<tariffs, exchangeRates, isLoading, fetchState, fetched, submission>>

\* v-model on the tariff field writing null (tariffId: number | null): the
\* field is cleared, and the watcher runs when that changed tariffId.
TariffCleared ==
    /\ ~isLoading
    /\ LET r == tariffSelected(tariffs, formValues, Null)
       IN /\ formValues' = r.fv
          /\ lastOp' = Op("tariffCleared", Null, r.threw)
          /\ watchFired' = r.fired
    /\ UNCHANGED <<tariffs, exchangeRates, isLoading, fetchState, fetched, submission>>

CurrencySelectionHandler(c) ==
    /\ ~isLoading
    /\ formValues' = currencySelected(formValues, Str(c))
    /\ lastOp' = Op("currencySelected", Str(c), FALSE)
    /\ watchFired' = FALSE
    /\ UNCHANGED <<tariffs, exchangeRates, isLoading, fetchState, fetched, submission>>

PeriodSelectionHandler(p) ==
    /\ ~isLoading
    /\ formValues' = periodSelected(formValues, p)
    /\ lastOp' = Op("periodSelected", p, FALSE)
    /\ watchFired' = FALSE
    /\ UNCHANGED <<tariffs, exchangeRates, isLoading, fetchState, fetched, submission>>

(* ------------------------------ submission ---------------------------- *)

\* JSON.parse(JSON.stringify(x)) of the selection object: a fresh object;
\* NaN is written as null, the other field values come back as they were.
JsonCopy(fv) == [f \in DOMAIN fv |-> IF fv[f] = NaN THEN Null ELSE fv[f]]

\* Mutant of onSubmit: the live formValues object is handed over.
onSubmit_LiveReference(fv) == [ref |-> TRUE, value |-> fv]

\* onSubmit: what is handed to the submission handler (console.log here).
\* ref tells whether it is the live formValues object or a value of its own.
onSubmit(fv) == [ref |-> FALSE, value |-> JsonCopy(fv)]

\* What the submission handler reads from the object it was handed.
Handed(sub) == IF sub.handed.ref THEN formValues ELSE sub.handed.value

\* The submit event of the form: the button is disabled while canSubmit is
\* falsy.  selection records the FormSelection at the moment of submission.
Submit ==
    /\ ~isLoading
    /\ canSubmit
    /\ submission' = [handed |-> onSubmit(formValues), selection |-> formValues]
    /\ lastOp' = Op("submit", Null, FALSE)
    /\ watchFired' = FALSE
    /\ UNCHANGED <<tariffs, exchangeRates, isLoading, formValues, fetchState, fetched>>

(* -------------------------------- loader ------------------------------ *)

\* Mutant of fetchResolved: only the first of the two assignments is made.
fetchResolved_TariffsOnly(data) ==
    [tariffs |-> data.tariffs, exchangeRates |-> <<>>,
     isLoading |-> FALSE, threw |-> FALSE]

\* fetchData after the awaited fetch resolved: both datasets are assigned,
\* then the finally block clears the flag.
fetchResolved(data) ==
    [tariffs |-> data.tariffs, exchangeRates |-> data.exchangeRates,
     isLoading |-> FALSE, threw |-> FALSE]

\* Mutant of fetchRejected: the flag is cleared on the success path only.
fetchRejected_FlagNotCleared(ts, xr) ==
    [tariffs |-> ts, exchangeRates |-> xr, isLoading |-> TRUE, threw |-> FALSE]

\* Mutant of fetchRejected: no catch block, the rejection leaves fetchData.
fetchRejected_Uncaught(ts, xr) ==
    [tariffs |-> ts, exchangeRates |-> xr, isLoading |-> FALSE, threw |-> TRUE]

\* fetchData after the awaited fetch rejected: the catch block logs, the
\* finally block clears the flag.
fetchRejected(ts, xr) ==
    [tariffs |-> ts, exchangeRates |-> xr, isLoading |-> FALSE, threw |-> FALSE]

FetchResolved(data) ==
    /\ fetchState = "pending"
    /\ LET r == fetchResolved(data)
       IN /\ tariffs' = r.tariffs
          /\ exchangeRates' = r.exchangeRates
          /\ isLoading' = r.isLoading
          /\ lastOp' = Op("fetchResolved", Null, r.threw)
    /\ fetchState' = "resolved"
    /\ fetched' = data
    /\ UNCHANGED <<formValues, watchFired, submission>>

\* Mutant of FetchRejected: a failed load is started again.
FetchRejected_Retry ==
    /\ fetchState \in {"pending", "rejected"}
    /\ fetchState' = IF fetchState = "pending" THEN "rejected" ELSE "pending"
    /\ isLoading' = (fetchState = "rejected")
    /\ lastOp' = Op("fetchRejected", Null, FALSE)
    /\ UNCHANGED <<tariffs, exchangeRates, formValues, watchFired, fetched, submission>>

FetchRejected ==
    /\ fetchState = "pending"
    /\ LET r == fetchRejected(tariffs, exchangeRates)
       IN /\ tariffs' = r.tariffs
          /\ exchangeRates' = r.exchangeRates
          /\ isLoading' = r.isLoading
          /\ lastOp' = Op("fetchRejected", Null, r.threw)
    /\ fetchState' = "rejected"
    /\ UNCHANGED <<formValues, watchFired, fetched, submission>>

(* ---------------------------- specification --------------------------- *)

Ids == 0..MaxId

Next ==
    \/ \E ts \in FetchedTariffs, xr \in FetchedRates :
          FetchResolved([tariffs |-> ts, exchangeRates |-> xr])
    \/ FetchRejected
    \/ \E id \in Ids : TariffSelectionHandler(id)
    \/ TariffCleared
    \/ \E c \in Tickers : CurrencySelectionHandler(c)
    \/ \E p \in {Null} \cup {Num(id) : id \in Ids} : PeriodSelectionHandler(p)
    \/ Submit

Spec == Init /\ [][Next]_vars

(* ------------------------- vocabulary of the claims ------------------- *)

CatalogIds == {tariffs[i].id : i \in 1..Len(tariffs)}

\* The catalog tariff with a given id (ids are unique in a catalog).
CatalogTariff(id) == CHOOSE t \in {tariffs[i] : i \in 1..Len(tariffs)} : t.id = id

OptionIds(t) == {t.paymentOptions[i].id : i \in 1..Len(t.paymentOptions)}

OptionOf(t, id) ==
    CHOOSE o \in {t.paymentOptions[i] : i \in 1..Len(t.paymentOptions)} : o.id = id

\* The ticker of a tariff's base currency, null when it has none.
TickerOrNull(t) ==
    IF \E k \in Tickers : Currency[k] = t.baseCurrency
    THEN Str(CHOOSE k \in Tickers : Currency[k] = t.baseCurrency)
    ELSE Null

\* The rate-table entries whose base code is the ticker of t's base currency.
EntriesFor(t) ==
    {e \in {exchangeRates[i] : i \in 1..Len(exchangeRates)} :
        Str(e.base_code) = TickerOrNull(t)}

\* x (in units of 1/Scale^2) rounded to the nearest 1/Scale, halves upwards.
Round2(x) == (x + Scale \div 2) \div Scale

\* The last operation selected a catalog tariff.
SelectedCatalogTariff ==
    /\ lastOp.op = "tariffSelected"
    /\ lastOp.arg.num \in CatalogIds

(* -------------------------------- claims ------------------------------ *)

\* C1: selecting a catalog tariff T with a non-empty payment-option sequence
\* leaves currency = ticker(T.baseCurrency) and paymentOptionId =
\* T.paymentOptions[0].id, whatever was selected before.
C1_SelectResetsCurrencyAndPeriod ==
    (SelectedCatalogTariff /\ CatalogTariff(lastOp.arg.num).paymentOptions # <<>>)
    => LET T == CatalogTariff(lastOp.arg.num)
       IN /\ formValues.currency = TickerOrNull(T)
          /\ formValues.paymentOptionId = Num(T.paymentOptions[1].id)

\* C2: selecting a catalog tariff whose payment-option sequence is empty
\* completes without failure, leaves paymentOptionId = null and sets currency
\* to the tariff's base-currency ticker.
C2_EmptyOptionsSelectCompletes ==
    (SelectedCatalogTariff /\ CatalogTariff(lastOp.arg.num).paymentOptions = <<>>)
    => /\ ~lastOp.threw
       /\ formValues.paymentOptionId = Null
       /\ formValues.currency = TickerOrNull(CatalogTariff(lastOp.arg.num))

\* C3: in every reachable state paymentOptionId is null or the id of a payment
\* option of the catalog tariff whose id equals tariffId.
C3_PaymentOptionBelongsToTariff ==
    \/ formValues.paymentOptionId = Null
    \/ /\ formValues.tariffId # Null
       /\ formValues.tariffId.num \in CatalogIds
       /\ formValues.paymentOptionId.num \in OptionIds(CatalogTariff(formValues.tariffId.num))

\* C4: canSubmit is true iff tariffId, currency and paymentOptionId are all
\* non-null, for every id value including 0.
C4_CanSubmitIffAllNonNull ==
    canSubmit <=> /\ formValues.tariffId # Null
                  /\ formValues.currency # Null
                  /\ formValues.paymentOptionId # Null

\* C5: exchangeRate is 0 in every state where currency is unset, where no
\* catalog tariff matches tariffId, and where the rate table has no entry
\* whose base code is the ticker of the selected tariff's base currency.
C5_ExchangeRateZeroOnMiss ==
    /\ formValues.currency = Null => exchangeRate = Num(0)
    /\ (formValues.tariffId = Null \/ formValues.tariffId.num \notin CatalogIds)
       => exchangeRate = Num(0)
    /\ (/\ formValues.tariffId # Null
        /\ formValues.tariffId.num \in CatalogIds
        /\ EntriesFor(CatalogTariff(formValues.tariffId.num)) = {})
       => exchangeRate = Num(0)

\* C5 witness: a complete selection of a catalog tariff whose base currency
\* has no entry in a non-empty rate table.
C5_Witness ==
    /\ formValues.tariffId # Null
    /\ formValues.tariffId.num \in CatalogIds
    /\ Truthy(formValues.currency)
    /\ Truthy(formValues.paymentOptionId)
    /\ formValues.paymentOptionId.num \in OptionIds(CatalogTariff(formValues.tariffId.num))
    /\ exchangeRates # <<>>
    /\ TickerOrNull(CatalogTariff(formValues.tariffId.num)) # Null
    /\ EntriesFor(CatalogTariff(formValues.tariffId.num)) = {}
    /\ exchangeRate = Num(0)

\* C6: after selecting a catalog tariff T whose base currency has a rate-table
\* entry, one of T's options O and then a currency C present in that entry's
\* conversion map, totalAmount = round2(O.basePrice * rate(C)).
C6_TotalIsRoundedProduct ==
    (/\ lastOp.op = "currencySelected"
     /\ formValues.tariffId # Null
     /\ formValues.tariffId.num \in CatalogIds
     /\ formValues.paymentOptionId # Null
     /\ formValues.paymentOptionId.num \in OptionIds(CatalogTariff(formValues.tariffId.num))
     /\ EntriesFor(CatalogTariff(formValues.tariffId.num)) # {}
     /\ \A e \in EntriesFor(CatalogTariff(formValues.tariffId.num)) :
           formValues.currency.str \in DOMAIN e.conversion_rates)
    => LET T == CatalogTariff(formValues.tariffId.num)
           O == OptionOf(T, formValues.paymentOptionId.num)
       IN \A e \in EntriesFor(T) :
             totalAmount = Num(Round2(O.basePrice * e.conversion_rates[formValues.currency.str]))

\* C7: in every reachable state no derivation fails and every lookup miss
\* yields a neutral value: exchangeRate, totalAmount and discount are numbers
\* (0 on a miss), periodOptions is a sequence, amountCurrencyLabel a string.
C7_DerivationsNeutralOnMiss ==
    /\ IsNum(exchangeRate) /\ IsNum(totalAmount) /\ IsNum(discount)
    /\ DOMAIN periodFieldProps = 1..Len(periodFieldProps)
    /\ IsStr(amountCurrency)
    /\ (formValues.tariffId = Null \/ formValues.tariffId.num \notin CatalogIds)
       => /\ exchangeRate = Num(0) /\ totalAmount = Num(0) /\ discount = Num(0)
          /\ periodFieldProps = <<>>
    /\ (/\ formValues.tariffId # Null
        /\ formValues.tariffId.num \in CatalogIds
        /\ formValues.currency # Null
        /\ \E e \in EntriesFor(CatalogTariff(formValues.tariffId.num)) :
              formValues.currency.str \notin DOMAIN e.conversion_rates)
       => exchangeRate = Num(0)

\* C8: on either outcome the completion of the fetch makes the loading flag
\* false; the flag goes from true to false once and never returns to true.
C8_LoadingClearedOnce ==
    [][/\ (fetchState = "pending" /\ fetchState' # "pending") => (isLoading /\ ~isLoading')
       /\ ~isLoading => (~isLoading' /\ fetchState' = fetchState)
       /\ isLoading' => fetchState' = "pending"]_vars

\* C8 witness: the fetch failed and the flag is false.
C8_Witness == fetchState = "rejected" /\ ~isLoading /\ lastOp.op = "fetchRejected"

\* C9: when the fetch fails the error does not propagate out of the loader,
\* and tariffs and exchangeRates stay at their initial empty value ever after.
C9_FailureLeavesDatasetsEmpty ==
    /\ fetchState = "rejected" => (tariffs = <<>> /\ exchangeRates = <<>>)
    /\ lastOp.op = "fetchRejected" => ~lastOp.threw

\* C9 witness: a state after the failed fetch in which the user has acted.
C9_Witness ==
    /\ fetchState = "rejected"
    /\ lastOp.op = "periodSelected"
    /\ formValues.tariffId # Null
    /\ formValues.currency # Null

\* C10: where tariffId is null, whatever currency and paymentOptionId hold,
\* totalAmount is 0, discount is 0 and canSubmit is false.
C10_NoTariffNoTotals ==
    formValues.tariffId = Null
    => (totalAmount = Num(0) /\ discount = Num(0) /\ ~canSubmit)

\* C10 witness: no tariff selected, but a currency and a payment option are,
\* with a loaded catalog and rate table.
C10_Witness ==
    /\ formValues.tariffId = Null
    /\ Truthy(formValues.currency)
    /\ Truthy(formValues.paymentOptionId)
    /\ tariffs # <<>>
    /\ exchangeRates # <<>>

\* The selection with nothing selected.
NoSelection == [tariffId |-> Null, currency |-> Null, paymentOptionId |-> Null]

\* tariffId matches no tariff of the catalog (null matches none).
NotInCatalog(tariffId) == tariffId = Null \/ tariffId.num \notin CatalogIds

\* C11: the currency and the period handler each change only their own field
\* of the selection; tariffId, the other field, both datasets and the loading
\* flag are unchanged and the reset rule does not fire.
C11_SettersChangeOwnFieldOnly ==
    [][/\ lastOp'.op = "currencySelected"
          => /\ formValues' = [formValues EXCEPT !.currency = lastOp'.arg]
             /\ ~watchFired'
             /\ UNCHANGED <<tariffs, exchangeRates, isLoading>>
       /\ lastOp'.op = "periodSelected"
          => /\ formValues' = [formValues EXCEPT !.paymentOptionId = lastOp'.arg]
             /\ ~watchFired'
             /\ UNCHANGED <<tariffs, exchangeRates, isLoading>>]_vars

\* C11 witness: a currency other than the tariff's own was chosen after a
\* catalog tariff, and the tariff's first option is still selected.
C11_Witness ==
    /\ lastOp.op = "currencySelected"
    /\ ~NotInCatalog(formValues.tariffId)
    /\ formValues.currency = lastOp.arg
    /\ formValues.currency # TickerOrNull(CatalogTariff(formValues.tariffId.num))
    /\ CatalogTariff(formValues.tariffId.num).paymentOptions # <<>>
    /\ formValues.paymentOptionId =
          Num(CatalogTariff(formValues.tariffId.num).paymentOptions[1].id)

\* C12: a submission is handed over only from a state where canSubmit is
\* true, and what was handed over equals the selection at the moment of
\* submission whatever the handlers and the reset rule do afterwards.
C12_SubmissionIsSnapshot ==
    submission # Null
    => /\ Truthy(canSubmitValue(submission.selection))
       /\ Handed(submission) = submission.selection

\* C12 witness: the selection has changed since the submission.
C12_Witness ==
    /\ submission # Null
    /\ formValues.tariffId # submission.selection.tariffId
    /\ formValues.currency # submission.selection.currency
    /\ watchFired

\* C13: when tariffId changes to a value that matches no catalog tariff (null
\* included), currency and paymentOptionId stay as they were.
C13_NoResetForUnknownTariff ==
    [][(formValues'.tariffId # formValues.tariffId /\ NotInCatalog(formValues'.tariffId))
       => /\ formValues'.currency = formValues.currency
          /\ formValues'.paymentOptionId = formValues.paymentOptionId]_vars

\* C13 witness: the watcher ran for a cleared tariff field with a loaded
\* catalog, and a currency and a payment option are still selected.
C13_Witness ==
    /\ watchFired
    /\ lastOp.op = "tariffCleared"
    /\ formValues.tariffId = Null
    /\ tariffs # <<>>
    /\ formValues.currency # Null
    /\ formValues.paymentOptionId # Null

\* C14: in every state a user event, the reset rule or a derivation can
\* observe, the two datasets are both still empty (before the fetch resolved)
\* or both the fetched values (after).
C14_DatasetsReplacedTogether ==
    /\ fetchState = "pending" => (fetched = Null /\ tariffs = <<>> /\ exchangeRates = <<>>)
    /\ fetchState = "resolved"
       => (fetched # Null /\ tariffs = fetched.tariffs
                          /\ exchangeRates = fetched.exchangeRates)

\* C14 witness: a user event has run on a fetched catalog and rate table.
C14_Witness ==
    /\ fetchState = "resolved"
    /\ tariffs # <<>>
    /\ exchangeRates # <<>>
    /\ lastOp.op = "tariffSelected"
    /\ watchFired

\* C15: the loader completes once, and no step after its completion changes
\* tariffs or exchangeRates.
C15_DatasetsFrozenAfterLoad ==
    [][fetchState # "pending" => UNCHANGED <<tariffs, exchangeRates, fetchState>>]_vars

\* C15 witness: selections and a submission have happened on the loaded data.
C15_Witness ==
    /\ fetchState = "resolved"
    /\ submission # Null
    /\ lastOp.op = "periodSelected"
    /\ tariffs = fetched.tariffs
    /\ tariffs # <<>>

\* C16: while isLoading is true the selection is all-null, nothing has been
\* submitted, and the reset rule has not run on the empty pre-load catalog.
C16_NoSelectionWhileLoading ==
    /\ isLoading => (formValues = NoSelection /\ ~watchFired /\ submission = Null)
    /\ fetchState = "pending" => (isLoading /\ lastOp = NoOp)

\* C16 witness: the component is mounted and the fetch is in flight.
C16_Witness == isLoading /\ fetchState = "pending" /\ formValues = NoSelection

\* C17: the tariff handler called with the id tariffId already holds does not
\* fire the reset rule: the selection is left as it was.
C17_ReselectKeepsSelection ==
    [][(lastOp'.op = "tariffSelected" /\ lastOp'.arg = formValues.tariffId)
       => (formValues' = formValues /\ ~watchFired')]_vars

\* C17 witness: the current catalog tariff was selected again after the user
\* had chosen another currency and another payment option.
C17_Witness ==
    /\ lastOp.op = "tariffSelected"
    /\ ~watchFired
    /\ lastOp.arg = formValues.tariffId
    /\ ~NotInCatalog(formValues.tariffId)
    /\ formValues.currency # Null
    /\ formValues.currency # TickerOrNull(CatalogTariff(formValues.tariffId.num))
    /\ CatalogTariff(formValues.tariffId.num).paymentOptions # <<>>
    /\ formValues.paymentOptionId #
          Num(CatalogTariff(formValues.tariffId.num).paymentOptions[1].id)

\* C18: where canSubmit is false, the displayed total is 0 and the displayed
\* discount (discount * exchangeRate) is 0, ids equal to 0 included.
C18_NothingDisplayedUnlessSubmittable ==
    ~canSubmit => (totalAmount = Num(0) /\ displayedDiscount = Num(0))

\* C19: once the data has loaded, selecting a catalog tariff with at least
\* one payment option and a base currency that has a ticker makes canSubmit
\* true at once, from any prior selection.
C19_SelectMakesSubmittable ==
    (/\ SelectedCatalogTariff
     /\ CatalogTariff(lastOp.arg.num).paymentOptions # <<>>
     /\ TickerOrNull(CatalogTariff(lastOp.arg.num)) # Null)
    => canSubmit

====
